---- MODULE Spec2Model ----
(***************************************************************************)
(* Model of google-dataflow_template.py: a Beam pipeline of two DoFns.     *)
(*   FetchGraphQLData.process  pages through a GraphQL endpoint and yields *)
(*                             one element per record;                     *)
(*   InsertToMySQL             opens an SSH tunnel and a MySQL connection  *)
(*                             per bundle, INSERT IGNOREs and commits each *)
(*                             element, and closes both in finish_bundle.  *)
(* The runner either fuses the two steps (every yielded element is         *)
(* processed by the sink before the generator resumes) or materialises the *)
(* intermediate PCollection (the generator runs ahead of the sink, and the *)
(* sink is fed in bundles of the runner's choosing).  The program does not *)
(* choose between the two, so the model leaves the choice open.            *)
(***************************************************************************)
EXTENDS Integers, Sequences, FiniteSets, TLC

\* ---- bounds of the model ----
MaxRecs == 2      \* records held by the endpoint
NumKeys == 2      \* distinct nim values
MaxLimit == 2     \* --query_limit ranges over 1..MaxLimit
MaxOffset == 1    \* --query_offset ranges over 0..MaxOffset
MaxRuns == 2      \* invocations of run() in a row (a run and its re-runs)

\* pipeline instances; Spec runs one of them
Inst == {1, 2}

VARIABLES
    data,          \* the records the endpoint holds, in offset order
    fused,         \* the runner's choice: are the two ParDo steps fused
    query_limit,   \* --query_limit
    query_offset,  \* --query_offset of the current run, per instance
    active,        \* the instances that take part
    table,         \* the committed rows of table students, in insert order
    fpc,           \* position of FetchGraphQLData.process: request/yield/advance/end
    offset,        \* variables['offset']
    page,          \* result_data of the last response
    idx,           \* index of the next item of result_data to yield
    buffer,        \* elements yielded and not yet taken by InsertToMySQL.process
    spc,           \* position of InsertToMySQL: idle/ready/inserted/fin
    fstep,         \* statements of finish_bundle already executed
    lease,         \* self.tunnel, self.conn, self.cursor
    pending,       \* rows inserted on self.conn and not yet committed
    status,        \* outcome of run(): RUNNING, DONE (normal return), FAILED (exception)
    failure,       \* which call raised, "none" if none did
    run_no,        \* number of the current invocation of run()
    requests,      \* the requests of this run in order: offset posted, status
                   \* code and number of records of the response
    fend,          \* why the fetch loop ended: none/empty/non200
    stdout,        \* what this run printed
    submitted      \* offset positions handed to InsertToMySQL.process in this run

vars == <<data, fused, query_limit, query_offset, active, table, fpc, offset, page,
          idx, buffer, spc, fstep, lease, pending, status, failure, run_no,
          requests, fend, stdout, submitted>>

\* ---- helpers ----
Min(a, b) == IF a < b THEN a ELSE b

Remove(s, k) == [j \in 1..(Len(s) - 1) |-> IF j < k THEN s[j] ELSE s[j + 1]]

Range(s) == {s[k] : k \in 1..Len(s)}

\* nim values are opaque: only the data sets whose keys appear in order of
\* first use are enumerated (1, then 2, ...); repeats are allowed.
Canonical(s) ==
    \A k \in 1..Len(s) : \A v \in 1..(s[k] - 1) : \E j \in 1..(k - 1) : s[j] = v

KeySeqs == {s \in UNION {[1..n -> 1..NumKeys] : n \in 0..MaxRecs} : Canonical(s)}

ProdiOf(p) == IF p % 2 = 1 THEN "TI" ELSE "SI"

\* the endpoint's answer to limit/offset: data(where, limit, offset)
EndpointData(off, lim) ==
    LET n == IF off >= Len(data) THEN 0 ELSE Min(lim, Len(data) - off)
    IN  [k \in 1..n |-> data[off + k]]

StatusCodes == {200, 500}

\* cap of the request history.  The loop itself has no cap (while True); an
\* endpoint of at most MaxRecs records answers at most MaxRecs non-empty
\* pages and one empty one, so the cap is never reached by the program.
MaxRequests == MaxRecs + 2

\* a loop without the break on an empty record list
FetchOutcome_no_break(code, result_data) ==
    IF code # 200 THEN "non200" ELSE "page"

\* a loop that prints on a failed response and carries on with the next offset
FetchOutcome_no_break_on_error(code, result_data) ==
    IF code # 200 THEN "page"
    ELSE IF result_data = <<>> THEN "empty"
    ELSE "page"

\* lines 75-83: how one iteration of the while loop goes on after the response
\*   "non200"  print and break
\*   "empty"   break
\*   "page"    yield the items, advance the offset, loop
FetchOutcome(code, result_data) ==
    IF code # 200 THEN "non200"
    ELSE IF result_data = <<>> THEN "empty"
    ELSE "page"

\* a loop that never advances: the same page again and again
NextOffset_stays(off, lim) == off

\* a loop that advances one position too far after each page
NextOffset_skips(off, lim) == off + lim + 1

\* a loop that advances by one record whatever the page size
NextOffset_by_one(off, lim) == off + 1

\* line 88: variables['offset'] += self.query_limit.get()
NextOffset(off, lim) == off + lim

\* self.tunnel, self.conn, self.cursor after __init__; owner is the instance
\* whose start_bundle assigned them last (0: none did)
NoLease == [tunnel |-> "none", conn |-> "none", cursor |-> "none", owner |-> 0]

\* one InsertToMySQL object held in common by all instances
self_shared(i) == 1

\* the InsertToMySQL object whose attributes the calls of instance i read and
\* write: tunnel, conn and cursor are attributes of self, and every
\* pipeline instance has its own DoFn object
self_of(i) == i

\* students is keyed by nim: does a row with this key exist
DuplicateKey(rows, nim) == \E k \in 1..Len(rows) : rows[k].nim = nim

\* the INSERT of a key waits while another live connection holds an
\* uncommitted row with this key
LockedByOther(i, nim) ==
    \E j \in active \ {i} : status[j] = "RUNNING" /\ DuplicateKey(pending[j], nim)

\* a plain INSERT: execute raises on a key that exists
insert_without_ignore(nim, nama_program_studi, tbl, pend) ==
    [raised |-> DuplicateKey(tbl \o pend, nim),
     pend   |-> Append(pend, [nim |-> nim,
                              nama_program_studi |-> nama_program_studi])]

\* an INSERT into a table that accepts a second row for a nim
insert_always_appends(nim, nama_program_studi, tbl, pend) ==
    [raised |-> FALSE,
     pend   |-> Append(pend, [nim |-> nim,
                              nama_program_studi |-> nama_program_studi])]

\* INSERT IGNORE INTO students (nim, nama_program_studi) VALUES (%s, %s),
\* executed on a cursor whose transaction holds the rows pend:
\* the rows of the transaction afterwards, and whether execute raised.
insert_data_to_mysql(nim, nama_program_studi, tbl, pend) ==
    [raised |-> FALSE,
     pend   |-> IF DuplicateKey(tbl \o pend, nim)
                THEN pend
                ELSE Append(pend, [nim |-> nim,
                                   nama_program_studi |-> nama_program_studi])]

\* tunnel = SSHTunnelForwarder(...); tunnel.start(); return tunnel
open_ssh_tunnel(l) == [l EXCEPT !.tunnel = "up"]

\* the element built by the yield statement; pos records the offset position
\* the item was served at
YieldElement(item, pos) ==
    [nim |-> item.nim, nama_program_studi |-> item.nama_program_studi, pos |-> pos]

\* the tunnel stopped before the connection is closed
FinishOrder_tunnel_first == <<"cursor.close", "tunnel.stop", "conn.close">>

\* the statements of finish_bundle, in program order
FinishOrder == <<"cursor.close", "conn.close", "tunnel.stop">>

\* the generator may run: always when the steps are not fused; when they are
\* fused, only while the sink's bundle is started and has returned from
\* process for every element yielded so far
GeneratorMayRun(i) ==
    /\ i \in active
    /\ status[i] = "RUNNING"
    /\ fused => (spc[i] = "ready" /\ buffer[i] = <<>>)

Fail(i, what) ==
    /\ status' = [status EXCEPT ![i] = "FAILED"]
    /\ failure' = [failure EXCEPT ![i] = what]

\* ---- initial state: one invocation of run() ----
RunStart(o) ==
    /\ query_offset = [i \in Inst |-> o]
    /\ offset = [i \in Inst |-> o]
    /\ fpc = [i \in Inst |-> "request"]
    /\ page = [i \in Inst |-> <<>>]
    /\ idx = [i \in Inst |-> 1]
    /\ buffer = [i \in Inst |-> <<>>]
    /\ spc = [i \in Inst |-> "idle"]
    /\ fstep = [i \in Inst |-> 0]
    /\ lease = [i \in Inst |-> NoLease]
    /\ pending = [i \in Inst |-> <<>>]
    /\ status = [i \in Inst |-> "RUNNING"]
    /\ failure = [i \in Inst |-> "none"]
    /\ run_no = [i \in Inst |-> 1]
    /\ requests = [i \in Inst |-> <<>>]
    /\ fend = [i \in Inst |-> "none"]
    /\ stdout = [i \in Inst |-> <<>>]
    /\ submitted = [i \in Inst |-> <<>>]

Init ==
    /\ \E s \in KeySeqs :
         data = [p \in 1..Len(s) |-> [nim |-> s[p], nama_program_studi |-> ProdiOf(p)]]
    /\ fused \in BOOLEAN
    /\ query_limit \in 1..MaxLimit
    /\ \E o \in 0..MaxOffset : RunStart(o)
    /\ active = {1}
    /\ table = <<>>

\* ---- FetchGraphQLData.process ----

\* a loop that raises on a failed response instead of breaking: the
\* exception ends the pipeline with the elements that still wait for the sink
Fetch_request_raises(i) ==
    /\ GeneratorMayRun(i)
    /\ fpc[i] = "request"
    /\ Len(requests[i]) < MaxRequests
    /\ \E code \in StatusCodes :
         LET result_data == IF code = 200
                            THEN EndpointData(offset[i], query_limit)
                            ELSE <<>>
             outcome == FetchOutcome(code, result_data)
         IN  /\ requests' = [requests EXCEPT ![i] =
                   Append(@, [offset |-> offset[i], status_code |-> code,
                              records |-> Len(result_data)])]
             /\ CASE outcome = "non200" ->
                    /\ Fail(i, "fetch")
                    /\ fpc' = [fpc EXCEPT ![i] = "end"]
                    /\ fend' = [fend EXCEPT ![i] = "non200"]
                    /\ UNCHANGED <<page, idx, stdout>>
               [] outcome = "empty" ->
                    /\ fpc' = [fpc EXCEPT ![i] = "end"]
                    /\ fend' = [fend EXCEPT ![i] = "empty"]
                    /\ UNCHANGED <<page, idx, stdout, status, failure>>
               [] outcome = "page" ->
                    /\ page' = [page EXCEPT ![i] = result_data]
                    /\ idx' = [idx EXCEPT ![i] = 1]
                    /\ fpc' = [fpc EXCEPT ![i] =
                          IF result_data = <<>> THEN "advance" ELSE "yield"]
                    /\ UNCHANGED <<fend, stdout, status, failure>>
    /\ UNCHANGED <<data, fused, query_limit, query_offset, active, table, offset,
                   buffer, spc, fstep, lease, pending, run_no, submitted>>

\* lines 72-83: post the query, branch on the status and on the record list
Fetch_request(i) ==
    /\ GeneratorMayRun(i)
    /\ fpc[i] = "request"
    /\ Len(requests[i]) < MaxRequests
    /\ \E code \in StatusCodes :
         LET result_data == IF code = 200
                            THEN EndpointData(offset[i], query_limit)
                            ELSE <<>>
             outcome == FetchOutcome(code, result_data)
         IN  /\ requests' = [requests EXCEPT ![i] =
                   Append(@, [offset |-> offset[i], status_code |-> code,
                              records |-> Len(result_data)])]
             /\ CASE outcome = "non200" ->
                    /\ stdout' = [stdout EXCEPT ![i] =
                          Append(@, [text |-> "Request failed with status code",
                                     value |-> code])]
                    /\ fpc' = [fpc EXCEPT ![i] = "end"]
                    /\ fend' = [fend EXCEPT ![i] = "non200"]
                    /\ UNCHANGED <<page, idx>>
               [] outcome = "empty" ->
                    /\ fpc' = [fpc EXCEPT ![i] = "end"]
                    /\ fend' = [fend EXCEPT ![i] = "empty"]
                    /\ UNCHANGED <<page, idx, stdout>>
               [] outcome = "page" ->
                    /\ page' = [page EXCEPT ![i] = result_data]
                    /\ idx' = [idx EXCEPT ![i] = 1]
                    /\ fpc' = [fpc EXCEPT ![i] =
                          IF result_data = <<>> THEN "advance" ELSE "yield"]
                    /\ UNCHANGED <<fend, stdout>>
    /\ UNCHANGED <<data, fused, query_limit, query_offset, active, table, offset,
                   buffer, spc, fstep, lease, pending, status, failure, run_no,
                   submitted>>

\* lines 85-86: yield the next item of result_data
Fetch_yield(i) ==
    /\ GeneratorMayRun(i)
    /\ fpc[i] = "yield"
    /\ buffer' = [buffer EXCEPT ![i] =
                    Append(@, YieldElement(page[i][idx[i]], offset[i] + idx[i]))]
    /\ IF idx[i] < Len(page[i])
       THEN /\ idx' = [idx EXCEPT ![i] = @ + 1]
            /\ UNCHANGED fpc
       ELSE /\ fpc' = [fpc EXCEPT ![i] = "advance"]
            /\ UNCHANGED idx
    /\ UNCHANGED <<data, fused, query_limit, query_offset, active, table, offset,
                   page, spc, fstep, lease, pending, status, failure, run_no,
                   requests, fend, stdout, submitted>>

\* line 88: variables['offset'] += self.query_limit.get()
Fetch_advance(i) ==
    /\ GeneratorMayRun(i)
    /\ fpc[i] = "advance"
    /\ offset' = [offset EXCEPT ![i] = NextOffset(@, query_limit)]
    /\ fpc' = [fpc EXCEPT ![i] = "request"]
    /\ UNCHANGED <<data, fused, query_limit, query_offset, active, table, page,
                   idx, buffer, spc, fstep, lease, pending, status, failure,
                   run_no, requests, fend, stdout, submitted>>

\* ---- InsertToMySQL ----

\* lines 104-120.  A fused bundle starts before the generator does and is the
\* only one; otherwise the runner starts a bundle when elements are waiting.
\* open_ssh_tunnel may raise (nothing was assigned), connect may raise (the
\* started tunnel stays in self.tunnel).
Sink_start_bundle(i) ==
    /\ i \in active
    /\ status[i] = "RUNNING"
    /\ spc[i] = "idle"
    /\ IF fused THEN lease[self_of(i)] = NoLease ELSE buffer[i] # <<>>
    /\ \E outcome \in {"ok", "tunnel", "connect"} :
         CASE outcome = "tunnel" ->
                /\ Fail(i, "tunnel")
                /\ UNCHANGED <<lease, spc>>
           [] outcome = "connect" ->
                /\ lease' = [lease EXCEPT ![self_of(i)] =
                       [open_ssh_tunnel(@) EXCEPT !.owner = i]]
                /\ Fail(i, "connect")
                /\ UNCHANGED spc
           [] outcome = "ok" ->
                /\ lease' = [lease EXCEPT ![self_of(i)] =
                       [open_ssh_tunnel(@) EXCEPT !.conn = "open", !.cursor = "open",
                                                  !.owner = i]]
                /\ spc' = [spc EXCEPT ![i] = "ready"]
                /\ UNCHANGED <<status, failure>>
    /\ UNCHANGED <<data, fused, query_limit, query_offset, active, table, fpc,
                   offset, page, idx, buffer, fstep, pending, run_no, requests,
                   fend, stdout, submitted>>

\* lines 124-126: take an element (a PCollection is unordered) and execute
\* the INSERT IGNORE on self.cursor; execute may raise, and it returns only
\* once no other connection holds the key in an open transaction
Sink_process_insert(i) ==
    /\ i \in active
    /\ status[i] = "RUNNING"
    /\ spc[i] = "ready"
    /\ \E k \in 1..Len(buffer[i]) :
         LET element == buffer[i][k]
             res == insert_data_to_mysql(element.nim, element.nama_program_studi,
                                         table, pending[i])
         IN  /\ ~LockedByOther(i, element.nim)
             /\ buffer' = [buffer EXCEPT ![i] = Remove(@, k)]
             /\ submitted' = [submitted EXCEPT ![i] = Append(@, element.pos)]
             /\ \E ok \in BOOLEAN :
                  IF ~ok \/ res.raised
                  THEN /\ Fail(i, IF res.raised THEN "duplicate" ELSE "insert")
                       /\ UNCHANGED <<pending, spc>>
                  ELSE /\ pending' = [pending EXCEPT ![i] = res.pend]
                       /\ spc' = [spc EXCEPT ![i] = "inserted"]
                       /\ UNCHANGED <<status, failure>>
    /\ UNCHANGED <<data, fused, query_limit, query_offset, active, table, fpc,
                   offset, page, idx, fstep, lease, run_no, requests, fend, stdout>>

\* a process that returns without committing: the rows stay in the
\* transaction of self.conn
Sink_process_without_commit(i) ==
    /\ i \in active
    /\ status[i] = "RUNNING"
    /\ spc[i] = "inserted"
    /\ spc' = [spc EXCEPT ![i] = "ready"]
    /\ UNCHANGED <<data, fused, query_limit, query_offset, active, table, fpc,
                   offset, page, idx, buffer, fstep, lease, pending, status,
                   failure, run_no, requests, fend, stdout, submitted>>

\* line 127: self.conn.commit(); when it raises nothing of the transaction
\* is made durable
Sink_process_commit(i) ==
    /\ i \in active
    /\ status[i] = "RUNNING"
    /\ spc[i] = "inserted"
    /\ \E ok \in BOOLEAN :
         IF ok
         THEN /\ table' = table \o pending[i]
              /\ pending' = [pending EXCEPT ![i] = <<>>]
              /\ spc' = [spc EXCEPT ![i] = "ready"]
              /\ UNCHANGED <<status, failure>>
         ELSE /\ Fail(i, "commit")
              /\ UNCHANGED <<table, pending, spc>>
    /\ UNCHANGED <<data, fused, query_limit, query_offset, active, fpc, offset,
                   page, idx, buffer, fstep, lease, run_no, requests, fend, stdout,
                   submitted>>

\* lines 129-133, one statement per step.  The runner calls finish_bundle
\* only on a bundle whose process calls all returned; a fused bundle ends
\* when the generator has ended.
Sink_finish_bundle(i) ==
    /\ i \in active
    /\ status[i] = "RUNNING"
    /\ \/ spc[i] = "fin"
       \/ spc[i] = "ready" /\ (fused => (fpc[i] = "end" /\ buffer[i] = <<>>))
    /\ LET stmt == FinishOrder[fstep[i] + 1]
       IN  /\ lease' = [lease EXCEPT ![self_of(i)] =
                 CASE stmt = "cursor.close" -> [@ EXCEPT !.cursor = "closed"]
                   [] stmt = "conn.close"   -> [@ EXCEPT !.conn = "closed"]
                   [] stmt = "tunnel.stop"  -> [@ EXCEPT !.tunnel = "stopped"]]
           /\ pending' = [pending EXCEPT ![i] =
                 IF stmt = "conn.close" THEN <<>> ELSE @]
    /\ IF fstep[i] + 1 = Len(FinishOrder)
       THEN /\ spc' = [spc EXCEPT ![i] = "idle"]
            /\ fstep' = [fstep EXCEPT ![i] = 0]
       ELSE /\ spc' = [spc EXCEPT ![i] = "fin"]
            /\ fstep' = [fstep EXCEPT ![i] = @ + 1]
    /\ UNCHANGED <<data, fused, query_limit, query_offset, active, table, fpc,
                   offset, page, idx, buffer, status, failure, run_no, requests,
                   fend, stdout, submitted>>

\* ---- run ----

\* lines 140-165: the with block ends normally once the generator is
\* exhausted, every element was processed and the last bundle is finished
run_returns(i) ==
    /\ i \in active
    /\ status[i] = "RUNNING"
    /\ fpc[i] = "end"
    /\ buffer[i] = <<>>
    /\ spc[i] = "idle"
    /\ fused => lease[self_of(i)] # NoLease
    /\ status' = [status EXCEPT ![i] = "DONE"]
    /\ UNCHANGED <<data, fused, query_limit, query_offset, active, table, fpc,
                   offset, page, idx, buffer, spc, fstep, lease, pending, failure,
                   run_no, requests, fend, stdout, submitted>>

\* run() is invoked again with some --query_offset, against the same endpoint
\* and table.  The objects of the previous invocation are gone; what its
\* connection had not committed is rolled back by the server.
run_again(i) ==
    /\ i \in active
    /\ status[i] # "RUNNING"
    /\ run_no[i] < MaxRuns
    /\ \E o \in 0..MaxOffset :
         /\ query_offset' = [query_offset EXCEPT ![i] = o]
         /\ offset' = [offset EXCEPT ![i] = o]
    /\ run_no' = [run_no EXCEPT ![i] = @ + 1]
    /\ fpc' = [fpc EXCEPT ![i] = "request"]
    /\ page' = [page EXCEPT ![i] = <<>>]
    /\ idx' = [idx EXCEPT ![i] = 1]
    /\ buffer' = [buffer EXCEPT ![i] = <<>>]
    /\ spc' = [spc EXCEPT ![i] = "idle"]
    /\ fstep' = [fstep EXCEPT ![i] = 0]
    /\ lease' = [lease EXCEPT ![self_of(i)] = NoLease]
    /\ pending' = [pending EXCEPT ![i] = <<>>]
    /\ status' = [status EXCEPT ![i] = "RUNNING"]
    /\ failure' = [failure EXCEPT ![i] = "none"]
    /\ requests' = [requests EXCEPT ![i] = <<>>]
    /\ fend' = [fend EXCEPT ![i] = "none"]
    /\ stdout' = [stdout EXCEPT ![i] = <<>>]
    /\ submitted' = [submitted EXCEPT ![i] = <<>>]
    /\ UNCHANGED <<data, fused, query_limit, active, table>>

Next ==
    \E i \in Inst :
        \/ Fetch_request(i)
        \/ Fetch_yield(i)
        \/ Fetch_advance(i)
        \/ Sink_start_bundle(i)
        \/ Sink_process_insert(i)
        \/ Sink_process_commit(i)
        \/ Sink_finish_bundle(i)
        \/ run_returns(i)
        \/ run_again(i)

Spec == Init /\ [][Next]_vars

\* ---- vocabulary of the properties ----
TableKeys == {table[k].nim : k \in 1..Len(table)}

NoDuplicateRows == \A a, b \in 1..Len(table) : a # b => table[a].nim # table[b].nim

DistinctKeys == \A a, b \in 1..Len(data) : a # b => data[a].nim # data[b].nim

\* the keys the endpoint serves at the offset positions above o
KeysFrom(o) == {data[p].nim : p \in (o + 1)..Len(data)}

\* the run ended by normal return after an empty page: no call raised and
\* no response was a failure
Completed(i) == status[i] = "DONE" /\ fend[i] = "empty"

\* ---- C1 ----
\* C1: a first run from offset 0 against an empty table, over an endpoint
\* whose N records have pairwise distinct nim, that ends by normal return
\* after an empty page, leaves in students exactly the N records, each once.
C1_CompleteRunLoadsAll ==
    \A i \in active :
        (Completed(i) /\ run_no[i] = 1 /\ query_offset[i] = 0 /\ DistinctKeys)
            => /\ Len(table) = Len(data)
               /\ Range(table) = Range(data)
               /\ NoDuplicateRows

C1_Witness ==
    /\ Completed(1) /\ run_no[1] = 1 /\ query_offset[1] = 0 /\ DistinctKeys
    /\ Len(data) >= 2
    /\ Len(requests[1]) >= 3
    /\ Len(submitted[1]) = Len(data)

\* ---- C2 ----
\* C2: whatever offset a run starts from and whatever earlier runs committed,
\* students never holds two rows with one nim, no insert raises because its
\* key exists, the rows are records of the endpoint, and a run that ends by
\* normal return after an empty page leaves every key from its offset on in
\* the table.
C2_RerunIdempotent ==
    /\ NoDuplicateRows
    /\ Range(table) \subseteq Range(data)
    /\ \A i \in active :
          /\ failure[i] # "duplicate"
          /\ Completed(i) => KeysFrom(query_offset[i]) \subseteq TableKeys

\* a re-run has executed the insert of a record an earlier run committed
C2_Witness ==
    /\ run_no[1] = 2
    /\ DistinctKeys
    /\ spc[1] = "inserted"
    /\ pending[1] = <<>>
    /\ Len(table) >= 1

\* ---- pages, as the fetch loop of one run cuts them ----
Last(q) == q[Len(q)]

\* the offset positions of the page requested at offset o
PageAt(o) == (o + 1)..Min(o + query_limit, Len(data))

\* the offset the page holding position p was requested at, in the run of i
PageOffsetOf(i, p) ==
    query_offset[i] + ((p - 1 - query_offset[i]) \div query_limit) * query_limit

PageCommitted(o) == \A p \in PageAt(o) : data[p].nim \in TableKeys

\* the offset of the first page of the run of i that is not fully committed
FirstUncommitted(i) ==
    LET offs == {query_offset[i] + j * query_limit : j \in 0..Len(data)}
        open == {o \in offs : o >= Len(data) \/ ~PageCommitted(o)}
    IN  CHOOSE o \in open : \A o2 \in open : o <= o2

SinkRaised(i) == failure[i] \in {"insert", "commit"}

\* ---- C3 ----
\* C3: when an insert or a commit raises for a record of a page, students
\* holds no row of that page (first run, pairwise distinct nim, so a row of
\* the page can only come from this run's inserts of that page).
C3_PageAtomic ==
    \A i \in active :
        (status[i] = "FAILED" /\ SinkRaised(i) /\ run_no[i] = 1 /\ DistinctKeys)
            => \A p \in PageAt(PageOffsetOf(i, Last(submitted[i]))) :
                   data[p].nim \notin TableKeys

\* ---- C4 ----
\* C4: once a run has ended, normally or because an insert or a commit
\* raised, the lease it opened is released: no tunnel is up and no
\* connection or cursor is open.
C4_LeaseReleasedOnEveryExit ==
    \A i \in active :
        (status[i] # "RUNNING" /\ (failure[i] = "none" \/ SinkRaised(i)))
            => /\ lease[i].tunnel # "up"
               /\ lease[i].conn # "open"
               /\ lease[i].cursor # "open"

\* ---- C5 ----
\* the run of i got a 200 response with an empty record list
EmptyAnswered(i) ==
    \E k \in 1..Len(requests[i]) :
        requests[i][k].status_code = 200 /\ requests[i][k].records = 0

\* a step of the run of i, other than a new invocation
RunStep(i) ==
    \/ Fetch_request(i) \/ Fetch_yield(i) \/ Fetch_advance(i)
    \/ Sink_start_bundle(i) \/ Sink_process_insert(i) \/ Sink_process_commit(i)
    \/ Sink_finish_bundle(i) \/ run_returns(i)

Non200Answered(i) ==
    \E k \in 1..Len(requests[i]) : requests[i][k].status_code # 200

\* C6: a run that got a response with a status other than 200 ends FAILED.
C6_Non200FailsRun ==
    \A i \in active :
        (Non200Answered(i) /\ status[i] # "RUNNING") => status[i] = "FAILED"

\* ---- C7 ----
\* C7: a run that ends in failure has printed a resume cursor, equal to the
\* offset of the first page that is not fully committed.
C7_FailureReportsCursor ==
    \A i \in active :
        status[i] = "FAILED"
            => \E k \in 1..Len(stdout[i]) :
                   /\ stdout[i][k].text = "resume cursor"
                   /\ stdout[i][k].value = FirstUncommitted(i)

\* ---- C8 ----
\* C8: the offset has advanced past a page, and the next page is requested,
\* only when every record of that page is committed; the elements between
\* the generator and the sink belong to one page.
C8_OnePageInFlight ==
    \A i \in active :
        /\ \A p \in (query_offset[i] + 1)..Min(offset[i], Len(data)) :
              data[p].nim \in TableKeys
        /\ \A a, b \in 1..Len(buffer[i]) :
              PageOffsetOf(i, buffer[i][a].pos) = PageOffsetOf(i, buffer[i][b].pos)

\* ---- C9 ----
\* C9: the offsets requested in a run are start, start + limit,
\* start + 2 * limit, ... in this order; the offset variable is never below
\* the last offset requested; and no offset position is yielded or handed to
\* the sink twice.
C9_OffsetsInOrder ==
    \A i \in active :
        /\ \A k \in 1..Len(requests[i]) :
              requests[i][k].offset = query_offset[i] + (k - 1) * query_limit
        /\ requests[i] # <<>> =>
              offset[i] \in {Last(requests[i]).offset,
                             Last(requests[i]).offset + query_limit}
        /\ LET handed == submitted[i] \o [k \in 1..Len(buffer[i]) |-> buffer[i][k].pos]
           IN  /\ \A a, b \in 1..Len(handed) : a # b => handed[a] # handed[b]
               /\ \A a \in 1..Len(handed) : handed[a] > query_offset[i]

C9_Witness ==
    /\ Len(requests[1]) >= 3
    /\ Len(submitted[1]) >= 2
    /\ query_limit = 1

\* ---- C10 ----
\* C10: a tunnel that is stopped has no open connection or cursor; in
\* finish_bundle the tunnel is still up when the connection is closed.
C10_HandleClosedBeforeTunnel ==
    \A i \in active :
        /\ lease[i].tunnel = "stopped" =>
              (lease[i].conn # "open" /\ lease[i].cursor # "open")
        /\ (spc[i] = "fin" /\ lease[i].conn = "open") => lease[i].tunnel = "up"

C10_Witness ==
    /\ lease[1].tunnel = "stopped"
    /\ lease[1].conn = "closed"
    /\ lease[1].cursor = "closed"
    /\ table # <<>>

\* ---- C11 ----
\* C11: when start_bundle fails because the connection through the started
\* tunnel is refused, the run fails at once and the tunnel is not left up.
C11_TunnelStoppedAfterFailedStart ==
    \A i \in active :
        (status[i] = "FAILED" /\ failure[i] = "connect") => lease[i].tunnel # "up"

\* ---- C12 ----
\* C12: a response whose status is not 200 is the last request of its run:
\* the loop has ended, and neither the same offset nor a later one is
\* requested afterwards.
C12_FailedFetchNotRetried ==
    \A i \in active :
        /\ \A k \in 1..Len(requests[i]) :
              requests[i][k].status_code # 200 => k = Len(requests[i])
        /\ Non200Answered(i) => (fpc[i] = "end" /\ fend[i] = "non200")

C12_Witness ==
    /\ Non200Answered(1)
    /\ Len(requests[1]) >= 2
    /\ status[1] = "DONE"

\* ---- C13 ----
\* Scheduling: the interpreter runs the generator on to its next statement;
\* the runner starts a bundle when elements wait, hands every waiting
\* element to process sooner or later (strong fairness: process is not
\* enabled between two bundles), lets process and finish_bundle run to
\* their end, and leaves the with block once the pipeline is drained.
Fairness(i) ==
    /\ WF_vars(Fetch_request(i) \/ Fetch_yield(i) \/ Fetch_advance(i))
    /\ WF_vars(Sink_start_bundle(i))
    /\ SF_vars(Sink_process_insert(i))
    /\ WF_vars(Sink_process_commit(i))
    /\ WF_vars(Sink_finish_bundle(i))
    /\ WF_vars(run_returns(i))

FairSpec == Spec /\ Fairness(1)

\* the number of non-empty pages the endpoint serves from the offset of the
\* run of i on
NonEmptyPages(i) ==
    IF query_offset[i] >= Len(data) THEN 0
    ELSE (Len(data) - query_offset[i] + query_limit - 1) \div query_limit

\* C13: a run posts at most one request more than there are non-empty
\* pages, a run that returned normally has left its fetch loop, and every
\* run reaches DONE or FAILED (a new run starts only from one of the two, so
\* the run is in a terminal state again and again exactly if each run ends).
C13_FetchLoopTerminates ==
    /\ [](\A i \in active : /\ Len(requests[i]) <= NonEmptyPages(i) + 1
                              /\ status[i] = "DONE" => fpc[i] = "end")
    /\ []<>(status[1] \in {"DONE", "FAILED"})

\* a run that needed one request more than it has non-empty pages
C13_Witness ==
    /\ status[1] = "DONE"
    /\ NonEmptyPages(1) >= 2
    /\ Len(requests[1]) = NonEmptyPages(1) + 1

\* ---- C17 ----
\* a call of process is under way, or was when it raised
InProcess(i) == spc[i] = "inserted" \/ (status[i] = "FAILED" /\ SinkRaised(i))

\* the offset positions whose call of process has returned, in this run
Returned(i) ==
    IF InProcess(i) THEN SubSeq(submitted[i], 1, Len(submitted[i]) - 1)
    ELSE submitted[i]

\* C17: the transaction of a connection never holds more than one row and
\* holds none outside a call of process; the record of every call of
\* process that returned is in students, also after a later call raised.
C17_CommitPerRecord ==
    \A i \in active :
        /\ Len(pending[i]) <= 1
        /\ (status[i] = "RUNNING" /\ spc[i] # "inserted") => pending[i] = <<>>
        /\ \A k \in 1..Len(Returned(i)) : data[Returned(i)[k]].nim \in TableKeys

\* a later call of process raised after an earlier one had returned
C17_Witness ==
    /\ status[1] = "FAILED" /\ SinkRaised(1)
    /\ run_no[1] = 1 /\ DistinctKeys
    /\ Len(submitted[1]) >= 2
    /\ Len(table) = Len(submitted[1]) - 1

\* ---- C16 ----
\* the offset positions of the pages requested before the last request
EarlierPages(i) ==
    (query_offset[i] + 1)..Min(Last(requests[i]).offset, Len(data))

\* the offset positions yielded so far: waiting for the sink or handed to it
Handed(i) == Range(submitted[i]) \cup {buffer[i][k].pos : k \in 1..Len(buffer[i])}

\* a call of the sink raised: start_bundle, execute or commit
SinkOrLeaseRaised(i) == failure[i] \in {"tunnel", "connect", "insert", "commit"}

ConcRecs == Min(MaxRecs, 2)

InitConc ==
    /\ \E s \in KeySeqs :
         data = [p \in 1..Len(s) |-> [nim |-> s[p], nama_program_studi |-> ProdiOf(p)]]
    /\ fused \in BOOLEAN
    /\ ~fused => Len(data) <= ConcRecs
    /\ query_limit \in 1..MaxLimit
    /\ RunStart(0)
    /\ active = Inst
    /\ table = <<>>

NextConc == \E i \in Inst : RunStep(i)

SpecConc == InitConc /\ [][NextConc]_vars

\* ---- C14 ----
\* the records a run in offset order keeps: of the records with one nim the
\* one served first
FirstRows ==
    {[nim |-> data[p].nim, nama_program_studi |-> data[p].nama_program_studi] :
        p \in {q \in 1..Len(data) : \A r \in 1..(q - 1) : data[r].nim # data[q].nim}}

\* C14: two instances run at once over the same offset range against the
\* same table, under every interleaving of their steps, leave what one
\* instance alone leaves: never two rows with one nim, only records of the
\* endpoint (the first served of each nim when elements are processed in
\* offset order), no call raises because its key exists, neither instance
\* is left waiting for the other for good, and as soon as one of them has
\* returned after an empty page the table holds exactly the keys of the
\* range - all the records when their nim are pairwise distinct.
C14_ConcurrentInstancesAgree ==
    /\ NoDuplicateRows
    /\ Range(table) \subseteq Range(data)
    /\ fused => Range(table) \subseteq FirstRows
    /\ \A i \in active :
          /\ failure[i] # "duplicate"
          /\ status[i] = "RUNNING" => \E j \in active : ENABLED RunStep(j)
          /\ Completed(i) =>
                /\ TableKeys = KeysFrom(query_offset[i])
                /\ DistinctKeys => (Range(table) = Range(data) /\ Len(table) = Len(data))

\* instance 1 has executed the insert of a record that instance 2 committed
\* before, while instance 2 holds the insert of another record uncommitted
C14_Witness ==
    /\ active = Inst
    /\ DistinctKeys
    /\ status[1] = "RUNNING" /\ status[2] = "RUNNING"
    /\ spc[1] = "inserted" /\ pending[1] = <<>>
    /\ spc[2] = "inserted" /\ pending[2] # <<>>
    /\ table # <<>>

\* ---- C15 ----
\* a bundle of i is under way: start_bundle has returned and finish_bundle
\* has not
InBundle(i) == spc[i] \in {"ready", "inserted", "fin"}

\* C15: while a bundle may insert or commit, the tunnel, connection and
\* cursor it uses are the ones its own start_bundle opened, and they are up
\* and open; through finish_bundle they are still its own; and two bundles
\* under way at the same time never use a lease opened by the same
\* start_bundle.
C15_LeaseOwnedByOneBundle ==
    \A i \in active :
        /\ spc[i] \in {"ready", "inserted"} =>
              lease[self_of(i)] = [tunnel |-> "up", conn |-> "open",
                                   cursor |-> "open", owner |-> i]
        /\ InBundle(i) => lease[self_of(i)].owner = i
        /\ \A j \in active \ {i} :
              (InBundle(i) /\ InBundle(j))
                  => lease[self_of(i)].owner # lease[self_of(j)].owner

\* both instances are between an insert and its commit at the same time
C15_Witness ==
    /\ active = Inst
    /\ spc[1] = "inserted" /\ spc[2] = "inserted"
    /\ status[1] = "RUNNING" /\ status[2] = "RUNNING"
    /\ lease[1].owner = 1 /\ lease[2].owner = 2

====
